---- MODULE Spec2Model ----
(***************************************************************************)
(* Verification model of the startup valuation engine (buildValuation in   *)
(* the ValuationTool page).                                                *)
(*                                                                         *)
(* Number representation.  A JavaScript number that reaches the engine is  *)
(* a record [t, v]: t = "num" for a finite value, otherwise one of "NaN",  *)
(* "Infinity", "-Infinity", "undefined".  Finite dimensionless values      *)
(* (inputs, factors, multiples, confidence) are fixed-point integers with  *)
(* ONE = 1.0, so 2.5 is 25000.  Money is an integer number of thousands    *)
(* of dollars (KUSD dollars per unit).  Products are rounded down to the   *)
(* representation's resolution.                                            *)
(***************************************************************************)
EXTENDS Integers, FiniteSets, Sequences, TLC

VARIABLES inputs, pc, valuation, method, insights, insightsPc,
          storage, clock, event, session, table, telemetryState,
          subscribers, dispatch, received

toolVars == <<inputs, pc, valuation, method, insights, insightsPc>>

libraryVars == <<storage, clock>>

formVars == <<session, table, telemetryState>>

telemetryVars == <<subscribers, dispatch, received>>

vars == <<inputs, pc, valuation, method, insights, insightsPc,
          storage, clock, event, session, table, telemetryState,
          subscribers, dispatch, received>>

\* ------------------------------------------------------------------ numbers
ONE == 10000
KUSD == 1000

Num(v) == [t |-> "num", v |-> v]
NaN == [t |-> "NaN", v |-> 0]
PosInfinity == [t |-> "Infinity", v |-> 0]
NegInfinity == [t |-> "-Infinity", v |-> 0]
Undefined == [t |-> "undefined", v |-> 0]

\* n/d as a fixed-point value, e.g. Dec(15, 100) is 0.15
Dec(n, d) == (n * ONE) \div d

\* a * b for fixed-point a or b (exactly floor(a*b/ONE), without overflow)
Mul(a, b) ==
    LET qa == a \div ONE
        ra == a % ONE
        qb == b \div ONE
        rb == b % ONE
    IN  qa * qb * ONE + qa * rb + ra * qb + (ra * rb) \div ONE

MathMax(a, b) == IF a >= b THEN a ELSE b
MathMin(a, b) == IF a <= b THEN a ELSE b

\* Number.isFinite
isFinite(value) == value.t = "num"

clamp(value, min, max) == MathMin(MathMax(value, min), max)

safeNumber(value, fallback) == IF isFinite(value) THEN value.v ELSE fallback

\* Math.pow(x, n) for a non-negative integer n
RECURSIVE MathPow(_, _)
MathPow(x, n) == IF n = 0 THEN ONE ELSE Mul(MathPow(x, n - 1), x)

\* -------------------------------------------------------------- stageConfig
StageKeys == {"concept", "seed", "seriesA", "seriesB", "seriesC"}

\* mutant: the table lacks the seriesC entry
stageConfigWithoutSeriesC ==
    [concept |-> [label |-> "Concept / Pre-seed",
                  baseValuationFloor |-> 250000 \div KUSD,
                  baseValuationCeiling |-> 2500000 \div KUSD,
                  revenueMultipleRange |-> <<0, 0>>],
     seed    |-> [label |-> "Seed / MVP",
                  baseValuationFloor |-> 1000000 \div KUSD,
                  baseValuationCeiling |-> 10000000 \div KUSD,
                  revenueMultipleRange |-> <<8, 15>>],
     seriesA |-> [label |-> "Series A",
                  baseValuationFloor |-> 10000000 \div KUSD,
                  baseValuationCeiling |-> 80000000 \div KUSD,
                  revenueMultipleRange |-> <<10, 25>>],
     seriesB |-> [label |-> "Series B",
                  baseValuationFloor |-> 40000000 \div KUSD,
                  baseValuationCeiling |-> 250000000 \div KUSD,
                  revenueMultipleRange |-> <<8, 18>>]]

stageConfig ==
    [concept |-> [label |-> "Concept / Pre-seed",
                  baseValuationFloor |-> 250000 \div KUSD,
                  baseValuationCeiling |-> 2500000 \div KUSD,
                  revenueMultipleRange |-> <<0, 0>>],
     seed    |-> [label |-> "Seed / MVP",
                  baseValuationFloor |-> 1000000 \div KUSD,
                  baseValuationCeiling |-> 10000000 \div KUSD,
                  revenueMultipleRange |-> <<8, 15>>],
     seriesA |-> [label |-> "Series A",
                  baseValuationFloor |-> 10000000 \div KUSD,
                  baseValuationCeiling |-> 80000000 \div KUSD,
                  revenueMultipleRange |-> <<10, 25>>],
     seriesB |-> [label |-> "Series B",
                  baseValuationFloor |-> 40000000 \div KUSD,
                  baseValuationCeiling |-> 250000000 \div KUSD,
                  revenueMultipleRange |-> <<8, 18>>],
     seriesC |-> [label |-> "Series C+",
                  baseValuationFloor |-> 100000000 \div KUSD,
                  baseValuationCeiling |-> 1000000000 \div KUSD,
                  revenueMultipleRange |-> <<6, 15>>]]

\* stageConfig[inputs.stage] is undefined for a key the table lacks
hasStage(key) == key \in DOMAIN stageConfig

\* ------------------------------------------------- buildValuation: inputs
\* mutant: a negative ARR is not raised to 0
arrOfUnfloored(in) == safeNumber(in.arr, 0)

arrOf(in) == MathMax(safeNumber(in.arr, 0), 0)
arrUsdOf(arr) == Mul(arr, 1000000 \div KUSD)
tamUsdOf(in) == Mul(MathMax(safeNumber(in.tam, 0), Dec(1, 10)), 1000000000 \div KUSD)
monthlyGrowthOf(in) == clamp(safeNumber(in.monthlyGrowth, 0), 0, 50 * ONE)
marginOf(in) == clamp(safeNumber(in.grossMargin, 0), 20 * ONE, 95 * ONE)
retentionOf(in) == clamp(safeNumber(in.netRetention, 0), 50 * ONE, 180 * ONE)
burnOf(in) == clamp(safeNumber(in.burnMultiple, 0), 0, 5 * ONE)
teamOf(in) == clamp(safeNumber(in.teamStrength, 0), 1 * ONE, 5 * ONE)
moatOf(in) == clamp(safeNumber(in.differentiation, 0), 1 * ONE, 5 * ONE)

\* mutant: the compounded factor is returned without subtracting 1
annualGrowthRateOfFactor(monthlyGrowth) == MathPow(ONE + monthlyGrowth \div 100, 12)

annualGrowthRateOf(monthlyGrowth) == MathPow(ONE + monthlyGrowth \div 100, 12) - ONE

\* ------------------------------------------------- method selection (l.358)
\* mutant: a seed company with exactly $100,000 of ARR still takes the Berkus branch
berkusAppliesInclusive(stageKey, arrUsd) ==
    stageKey = "concept" \/ (stageKey = "seed" /\ arrUsd <= 100000 \div KUSD)

berkusApplies(stageKey, arrUsd) ==
    stageKey = "concept" \/ (stageKey = "seed" /\ arrUsd < 100000 \div KUSD)

\* ------------------------------------------------------ Berkus branch
ideaValue(moat) == Mul(moat \div 5, 500000 \div KUSD)

\* mutant: zero growth already counts as a growth signal
prototypeValueZeroGrowthCounts(arrUsd, monthlyGrowth) ==
    Mul(IF arrUsd > 0 THEN Dec(8, 10)
        ELSE IF monthlyGrowth >= 0 THEN Dec(5, 10) ELSE Dec(2, 10),
        500000 \div KUSD)

prototypeValue(arrUsd, monthlyGrowth) ==
    Mul(IF arrUsd > 0 THEN Dec(8, 10)
        ELSE IF monthlyGrowth > 0 THEN Dec(5, 10) ELSE Dec(2, 10),
        500000 \div KUSD)

teamValue(team) == Mul(team \div 5, 500000 \div KUSD)

strategicValue(team, moat) == Mul((team + moat) \div 10, 300000 \div KUSD)

marketTimingValue(tamUsd) ==
    Mul(IF tamUsd > 10000 * (1000000 \div KUSD) THEN Dec(7, 10) ELSE Dec(4, 10),
        200000 \div KUSD)

berkusTotal(arrUsd, tamUsd, monthlyGrowth, team, moat) ==
    ideaValue(moat) + prototypeValue(arrUsd, monthlyGrowth) + teamValue(team)
        + strategicValue(team, moat) + marketTimingValue(tamUsd)

\* mutant: the market-potential share is added to the sum before the clamp
berkusBaseWithMarketPotential(total, stage) ==
    clamp(total + Mul(total, Dec(1, 10)),
          stage.baseValuationFloor, stage.baseValuationCeiling)

berkusBase(total, stage) ==
    clamp(total, stage.baseValuationFloor, stage.baseValuationCeiling)

berkusMarketPotential(total) == Mul(total, Dec(1, 10))

\* -------------------------------------------- revenue-multiple branch
growthScore(annualGrowthRate) == clamp(annualGrowthRate, 0, ONE)

baseMultiple(stage, annualGrowthRate) ==
    LET minMult == stage.revenueMultipleRange[1]
        maxMult == stage.revenueMultipleRange[2]
    IN  minMult * ONE + (maxMult - minMult) * growthScore(annualGrowthRate)

marginAdjustment(margin) ==
    IF margin < 60 * ONE THEN Dec(8, 10)
    ELSE IF margin > 80 * ONE THEN Dec(11, 10) ELSE ONE

retentionAdjustment(retention) ==
    IF retention < 90 * ONE THEN Dec(85, 100)
    ELSE IF retention > 120 * ONE THEN Dec(115, 100) ELSE ONE

\* mutant: the tier boundaries are inclusive
burnAdjustmentInclusiveTiers(burn) ==
    IF burn = 0 THEN Dec(12, 10)
    ELSE IF burn <= ONE THEN Dec(115, 100)
    ELSE IF burn <= Dec(15, 10) THEN Dec(11, 10)
    ELSE IF burn <= 2 * ONE THEN ONE
    ELSE IF burn <= 3 * ONE THEN Dec(9, 10)
    ELSE Dec(75, 100)

\* mutant: the "< 1" tier is tested before the "= 0" tier
burnAdjustmentZeroTierShadowed(burn) ==
    IF burn < ONE THEN Dec(115, 100)
    ELSE IF burn = 0 THEN Dec(12, 10)
    ELSE IF burn < Dec(15, 10) THEN Dec(11, 10)
    ELSE IF burn < 2 * ONE THEN ONE
    ELSE IF burn < 3 * ONE THEN Dec(9, 10)
    ELSE Dec(75, 100)

burnAdjustment(burn) ==
    IF burn = 0 THEN Dec(12, 10)
    ELSE IF burn < ONE THEN Dec(115, 100)
    ELSE IF burn < Dec(15, 10) THEN Dec(11, 10)
    ELSE IF burn < 2 * ONE THEN ONE
    ELSE IF burn < 3 * ONE THEN Dec(9, 10)
    ELSE Dec(75, 100)

qualitativeScore(team, moat) == (team + moat) \div 10

qualitativeAdjustment(team, moat) ==
    Dec(85, 100) + Mul(qualitativeScore(team, moat), Dec(3, 10))

\* mutant: the product of the adjustments is not clamped to the stage range
revenueMultipleOfUnclamped(stage, annualGrowthRate, margin, retention, burn, team, moat) ==
    Mul(Mul(Mul(Mul(baseMultiple(stage, annualGrowthRate),
                    marginAdjustment(margin)),
                retentionAdjustment(retention)),
            burnAdjustment(burn)),
        qualitativeAdjustment(team, moat))

revenueMultipleOf(stage, annualGrowthRate, margin, retention, burn, team, moat) ==
    LET minMult == stage.revenueMultipleRange[1]
        maxMult == stage.revenueMultipleRange[2]
    IN  clamp(Mul(Mul(Mul(Mul(baseMultiple(stage, annualGrowthRate),
                              marginAdjustment(margin)),
                          retentionAdjustment(retention)),
                      burnAdjustment(burn)),
                  qualitativeAdjustment(team, moat)),
              Mul(minMult * ONE, Dec(5, 10)),
              Mul(maxMult * ONE, Dec(12, 10)))

revenueValuation(arrUsd, revenueMultiple) == Mul(arrUsd, revenueMultiple)

\* mutant: the 12-month projection is computed in both branches
forwardArrForBothBranches(berkus, arrUsd, annualGrowthRate) ==
    Mul(arrUsd, ONE + annualGrowthRate)

\* forwardArr: 0 in the Berkus branch, the 12-month projection otherwise
forwardArrFor(berkus, arrUsd, annualGrowthRate) ==
    IF berkus THEN 0 ELSE Mul(arrUsd, ONE + annualGrowthRate)

\* mutant: the seriesB and seriesC capture rates are exchanged
tamCaptureRateSwapped(stageKey) ==
    IF stageKey = "seriesC" THEN Dec(5, 10000)
    ELSE IF stageKey = "seriesB" THEN Dec(1, 1000) ELSE Dec(2, 10000)

tamCaptureRate(stageKey) ==
    IF stageKey = "seriesC" THEN Dec(1, 1000)
    ELSE IF stageKey = "seriesB" THEN Dec(5, 10000) ELSE Dec(2, 10000)

revenueMarketPotential(stageKey, tamUsd, team, moat, revValuation) ==
    MathMin(Mul(Mul(tamUsd, tamCaptureRate(stageKey)), qualitativeAdjustment(team, moat)),
            Mul(revValuation, Dec(5, 100)))

\* mutant: the 50x ARR cap is applied before the stage clamp
revenueBaseCapFirst(stage, arrUsd, revValuation, marketPotential) ==
    clamp(MathMin(revValuation + marketPotential, arrUsd * 50),
          stage.baseValuationFloor, stage.baseValuationCeiling)

revenueBase(stage, arrUsd, revValuation, marketPotential) ==
    MathMin(clamp(revValuation + marketPotential,
                  stage.baseValuationFloor, stage.baseValuationCeiling),
            arrUsd * 50)

\* ------------------------------------------- scenario spread, confidence
\* mutant: the moat term weighs three times as much
upsideFactorWiderMoatTerm(annualGrowthRate, moat) ==
    clamp(Dec(15, 100) + Mul(annualGrowthRate, Dec(15, 100))
              + Mul((moat - 3 * ONE) \div 5, Dec(3, 10)),
          Dec(1, 10), Dec(4, 10))

upsideFactor(annualGrowthRate, moat) ==
    clamp(Dec(15, 100) + Mul(annualGrowthRate, Dec(15, 100))
              + Mul((moat - 3 * ONE) \div 5, Dec(1, 10)),
          Dec(1, 10), Dec(4, 10))

\* mutant: the burn penalty starts at 3x instead of 2x
downsideFactorLateBurnPenalty(burn, team) ==
    clamp(Dec(15, 100)
              + (IF burn > 3 * ONE THEN Mul(burn - 3 * ONE, Dec(8, 100)) ELSE 0)
              + Mul((5 * ONE - team) \div 5, Dec(1, 10)),
          Dec(1, 10), Dec(35, 100))

downsideFactor(burn, team) ==
    clamp(Dec(15, 100)
              + (IF burn > 2 * ONE THEN Mul(burn - 2 * ONE, Dec(8, 100)) ELSE 0)
              + Mul((5 * ONE - team) \div 5, Dec(1, 10)),
          Dec(1, 10), Dec(35, 100))

bullOf(base, upside) == Mul(base, ONE + upside)

\* mutant: the downside is added instead of subtracted
bearOfSignSlip(base, downside) == Mul(base, ONE + downside)

bearOf(base, downside) == Mul(base, ONE - downside)

\* mutant: the sum of the confidence terms is returned without the clamp
confidenceOfUnclamped(arrUsd, retention, team, burn, moat) ==
    Dec(30, 100)
        + (IF arrUsd > 500000 \div KUSD THEN Dec(25, 100)
           ELSE IF arrUsd > 0 THEN Dec(15, 100) ELSE 0)
        + Mul(Dec(15, 100), retention \div 150)
        + Mul(Dec(10, 100), team \div 5)
        + Mul(Dec(10, 100), ONE - MathMin(burn, 3 * ONE) \div 4)
        + Mul(Dec(10, 100), moat \div 5)

confidenceOf(arrUsd, retention, team, burn, moat) ==
    clamp(Dec(30, 100)
              + (IF arrUsd > 500000 \div KUSD THEN Dec(25, 100)
                 ELSE IF arrUsd > 0 THEN Dec(15, 100) ELSE 0)
              + Mul(Dec(15, 100), retention \div 150)
              + Mul(Dec(10, 100), team \div 5)
              + Mul(Dec(10, 100), ONE - MathMin(burn, 3 * ONE) \div 4)
              + Mul(Dec(10, 100), moat \div 5),
          Dec(25, 100), Dec(90, 100))

\* ------------------------------------------------------- buildValuation
\* mutant: margin and retention are reported as percentages
liftsOfPercent(annualGrowthRate, margin, retention, burn, team, moat) ==
    [growth |-> ONE + annualGrowthRate,
     margin |-> margin,
     retention |-> retention,
     burn |-> burn,
     qualitative |-> (team + moat) \div 10]

\* the lifts record of the returned snapshot
liftsOf(annualGrowthRate, margin, retention, burn, team, moat) ==
    [growth |-> ONE + annualGrowthRate,
     margin |-> margin \div 100,
     retention |-> retention \div 100,
     burn |-> burn,
     qualitative |-> (team + moat) \div 10]

buildValuation(in) ==
    LET stage == stageConfig[in.stage]
        arr == arrOf(in)
        arrUsd == arrUsdOf(arr)
        tamUsd == tamUsdOf(in)
        monthlyGrowth == monthlyGrowthOf(in)
        margin == marginOf(in)
        retention == retentionOf(in)
        burn == burnOf(in)
        team == teamOf(in)
        moat == moatOf(in)
        annualGrowthRate == annualGrowthRateOf(monthlyGrowth)
        berkus == berkusApplies(in.stage, arrUsd)
        total == berkusTotal(arrUsd, tamUsd, monthlyGrowth, team, moat)
        revenueMultiple ==
            IF berkus THEN 0
            ELSE revenueMultipleOf(stage, annualGrowthRate, margin, retention,
                                   burn, team, moat)
        revValuation == revenueValuation(arrUsd, revenueMultiple)
        forwardArr == forwardArrFor(berkus, arrUsd, annualGrowthRate)
        marketPotential ==
            IF berkus THEN berkusMarketPotential(total)
            ELSE revenueMarketPotential(in.stage, tamUsd, team, moat, revValuation)
        base ==
            IF berkus THEN berkusBase(total, stage)
            ELSE revenueBase(stage, arrUsd, revValuation, marketPotential)
    IN  [bear |-> bearOf(base, downsideFactor(burn, team)),
         base |-> base,
         bull |-> bullOf(base, upsideFactor(annualGrowthRate, moat)),
         revenueMultiple |-> revenueMultiple,
         confidence |-> confidenceOf(arrUsd, retention, team, burn, moat),
         forwardArr |-> forwardArr,
         marketPotential |-> marketPotential,
         stageLabel |-> stage.label,
         lifts |-> liftsOf(annualGrowthRate, margin, retention, burn, team, moat)]

\* the branch buildValuation takes for these inputs
methodOf(in) ==
    IF berkusApplies(in.stage, arrUsdOf(arrOf(in))) THEN "berkus" ELSE "revenue"

\* -------------------------------------------------------- buildInsights
\* buildInsights reads the raw input record, so its comparisons are the
\* JavaScript ones: a comparison with NaN or undefined is false.
jsLess(x, bound) == (x.t = "num" /\ x.v < bound) \/ x.t = "-Infinity"

jsGreater(x, bound) == (x.t = "num" /\ x.v > bound) \/ x.t = "Infinity"

jsStrictEquals(x, value) == x.t = "num" /\ x.v = value

\* inputs.arr * 1_000_000, in thousands of dollars
insightsArrUsd(in) ==
    IF in.arr.t = "num" THEN Num(Mul(in.arr.v, 1000000 \div KUSD))
    ELSE IF in.arr.t = "undefined" THEN NaN
    ELSE in.arr

\* value.toFixed(n) throws a TypeError when value is undefined
toFixedThrows(value) == value.t = "undefined"

\* Insight 1: stage-appropriate valuation context
insightsBerkusSentence(in) ==
    in.stage = "concept"
        \/ (in.stage = "seed" /\ jsLess(insightsArrUsd(in), 100000 \div KUSD))

contextInsight(in) ==
    IF insightsBerkusSentence(in) THEN "berkusMethod" ELSE "arrMultiple"

\* Insight 2: growth trajectory
trajectoryInsight(in) ==
    IF jsGreater(insightsArrUsd(in), 0) THEN "growthTrajectory" ELSE "preRevenue"

efficiencyInsightIgnoresArr(in) ==
    IF jsStrictEquals(in.burnMultiple, 0) THEN "profitable"
    ELSE IF jsGreater(in.burnMultiple, 3 * ONE) THEN "highBurn"
    ELSE IF jsLess(in.burnMultiple, Dec(15, 10)) THEN "efficientBurn"
    ELSE IF jsLess(in.netRetention, 90 * ONE) THEN "lowRetention"
    ELSE IF jsLess(in.grossMargin, 50 * ONE) THEN "lowMargin"
    ELSE "bearCase"

\* Insight 3: efficiency and risks
efficiencyInsight(in) ==
    IF jsStrictEquals(in.burnMultiple, 0) THEN "profitable"
    ELSE IF jsGreater(in.burnMultiple, 3 * ONE) THEN "highBurn"
    ELSE IF jsLess(in.burnMultiple, Dec(15, 10)) /\ jsGreater(insightsArrUsd(in), 0)
         THEN "efficientBurn"
    ELSE IF jsLess(in.netRetention, 90 * ONE) THEN "lowRetention"
    ELSE IF jsLess(in.grossMargin, 50 * ONE) THEN "lowMargin"
    ELSE "bearCase"

adviceInsightsBerkusThreshold(in) ==
    IF in.stage = "concept" THEN <<"toSeed">>
    ELSE IF in.stage = "seed" /\ jsLess(insightsArrUsd(in), 100000 \div KUSD)
         THEN <<"toSeriesA">>
    ELSE IF in.stage = "seriesA" /\ jsGreater(in.netRetention, 110 * ONE)
         THEN <<"toSeriesB">>
    ELSE <<>>

\* Insight 4: stage-specific advice (none for the other inputs)
adviceInsights(in) ==
    IF in.stage = "concept" THEN <<"toSeed">>
    ELSE IF in.stage = "seed" /\ jsLess(insightsArrUsd(in), 500000 \div KUSD)
         THEN <<"toSeriesA">>
    ELSE IF in.stage = "seriesA" /\ jsGreater(in.netRetention, 110 * ONE)
         THEN <<"toSeriesB">>
    ELSE <<>>

\* a toFixed call on a missing field, in the sentences that are built
buildInsightsThrows(in) ==
    \/ ~hasStage(in.stage)
    \/ IF insightsBerkusSentence(in)
       THEN toFixedThrows(in.teamStrength) \/ toFixedThrows(in.differentiation)
       ELSE toFixedThrows(in.grossMargin)
    \/ jsGreater(insightsArrUsd(in), 0) /\ toFixedThrows(in.monthlyGrowth)

\* the returned list, each sentence named by its variant; the snapshot only
\* supplies numbers that are formatted into the text
buildInsights(in, snapshot) ==
    SubSeq(<<contextInsight(in), trajectoryInsight(in), efficiencyInsight(in)>>
               \o adviceInsights(in), 1,
           MathMin(4, 3 + Len(adviceInsights(in))))

\* ----------------------------------- MethodologyModal: Applied Adjustments
jsAtLeast(x, bound) == (x.t = "num" /\ x.v >= bound) \/ x.t = "Infinity"

\* the percentages shown under "Applied Adjustments", from the raw inputs
marginImpactShown(in) ==
    IF jsAtLeast(in.grossMargin, 80 * ONE) THEN 10
    ELSE IF jsLess(in.grossMargin, 60 * ONE) THEN -20 ELSE 0

retentionImpactShown(in) ==
    IF jsAtLeast(in.netRetention, 120 * ONE) THEN 15
    ELSE IF jsLess(in.netRetention, 90 * ONE) THEN -15 ELSE 0

burnEfficiencyShown(in) ==
    IF jsStrictEquals(in.burnMultiple, 0) THEN 20
    ELSE IF jsLess(in.burnMultiple, Dec(15, 10)) THEN 10
    ELSE IF jsGreater(in.burnMultiple, 3 * ONE) THEN -25 ELSE 0

\* ------------------------------------------------------------ input space
\* Values are written in hundredths: V(250) is 2.50.
V(h) == Num(h * (ONE \div 100))

NumericKeys == {"arr", "monthlyGrowth", "tam", "grossMargin", "netRetention",
                "burnMultiple", "teamStrength", "differentiation"}

\* in-range values, one per tier of the engine's case analysis
GridValues ==
    [arr             |-> {V(0), V(5), V(10), V(200), V(6000)},
     monthlyGrowth   |-> {V(0), V(500), V(1500)},
     tam             |-> {V(100), V(2000)},
     grossMargin     |-> {V(5000), V(7500), V(9000)},
     netRetention    |-> {V(8000), V(11000), V(13000)},
     burnMultiple    |-> {V(0), V(50), V(100), V(150), V(250), V(400)},
     teamStrength    |-> {V(250), V(500)},
     differentiation |-> {V(100), V(400)}]

\* the values that accompany an out-of-range or non-finite field
CoarseValues ==
    [arr             |-> {V(5), V(200)},
     monthlyGrowth   |-> {V(0), V(500)},
     tam             |-> {V(100), V(2000)},
     grossMargin     |-> {V(5000), V(9000)},
     netRetention    |-> {V(8000), V(13000)},
     burnMultiple    |-> {V(0), V(250)},
     teamStrength    |-> {V(250), V(500)},
     differentiation |-> {V(100), V(400)}]

NonFinite == {NaN, PosInfinity, NegInfinity, Undefined}

\* out-of-range finite values (below and above the documented domain)
OutOfRange ==
    [arr             |-> {V(-500), V(100000)},
     monthlyGrowth   |-> {V(-300), V(8000)},
     tam             |-> {V(0), V(60000)},
     grossMargin     |-> {V(1000), V(12000)},
     netRetention    |-> {V(2000), V(20000)},
     burnMultiple    |-> {V(-100), V(700)},
     teamStrength    |-> {V(0), V(900)},
     differentiation |-> {V(50), V(600)}]

ExoticValues(k) == OutOfRange[k] \cup NonFinite

\* at most this many fields of one record are out of range or non-finite
MaxExotic == 1

ExoticSets == {s \in SUBSET NumericKeys : Cardinality(s) <= MaxExotic}

FieldValues(ex, k) ==
    IF ex = {} THEN GridValues[k]
    ELSE IF k \in ex THEN ExoticValues(k) ELSE CoarseValues[k]

\* the two worked scenarios of the specification's testable properties: the
\* Series A record, and the concept record (whose margin, retention and burn
\* are left open)
ScenarioInputs ==
    {[stage |-> "seriesA", arr |-> V(200), monthlyGrowth |-> V(1500),
      tam |-> V(1000), grossMargin |-> V(7500), netRetention |-> V(11000),
      burnMultiple |-> V(100), teamStrength |-> V(400), differentiation |-> V(400)]}
    \cup
    {[stage |-> "concept", arr |-> V(0), monthlyGrowth |-> V(0),
      tam |-> V(2000), grossMargin |-> m, netRetention |-> r,
      burnMultiple |-> b, teamStrength |-> V(500), differentiation |-> V(500)] :
        m \in GridValues.grossMargin, r \in GridValues.netRetention,
        b \in GridValues.burnMultiple}
    \cup
    \* the tier boundaries margin = 80 and retention = 120
    {[stage |-> "seriesA", arr |-> V(200), monthlyGrowth |-> V(500),
      tam |-> V(2000), grossMargin |-> V(8000), netRetention |-> V(12000),
      burnMultiple |-> b, teamStrength |-> V(500), differentiation |-> V(400)] :
        b \in {V(150), V(200), V(300)}}

NoValuation ==
    [bear |-> 0, base |-> 0, bull |-> 0, revenueMultiple |-> 0, confidence |-> 0,
     forwardArr |-> 0, marketPotential |-> 0, stageLabel |-> "",
     lifts |-> [growth |-> 0, margin |-> 0, retention |-> 0, burn |-> 0,
                qualitative |-> 0]]

\* ------------------------------------- local library (utils/benchmarks.ts)
\* JSON.stringify writes a non-finite number as null
Null == [t |-> "null", v |-> 0]

jsonNumber(x) == IF x.t = "num" THEN x ELSE Null

InputKeys == NumericKeys \cup {"stage"}

OutputKeys == {"bear", "base", "bull", "revenueMultiple", "confidence"}

SavedKeys == {"id", "companyName", "createdAt", "updatedAt"}
                 \cup InputKeys \cup OutputKeys

\* JSON.parse(JSON.stringify(record)): numeric input fields pass through
\* jsonNumber, every other field of a record is a string or a finite number
jsonRecord(record) ==
    [k \in DOMAIN record |->
        IF k \in NumericKeys THEN jsonNumber(record[k]) ELSE record[k]]

\* `val_${Date.now()}_${random}`: a fresh id for every call
generateId(now) == 10 + now

\* valuations.findIndex(v => v.id === id), counted from 1; 0 when absent
findIndex(valuations, id) ==
    IF \E i \in DOMAIN valuations : valuations[i].id = id
    THEN CHOOSE i \in DOMAIN valuations :
             /\ valuations[i].id = id
             /\ \A j \in DOMAIN valuations : valuations[j].id = id => i <= j
    ELSE 0

\* { ...a, ...b }
spread(a, b) ==
    [k \in DOMAIN a \cup DOMAIN b |-> IF k \in DOMAIN b THEN b[k] ELSE a[k]]

\* mutant: the new record is appended
saveValuationAppends(valuations, record, now) ==
    Append(valuations,
           spread(record, [id |-> generateId(now), createdAt |-> now]))

\* saveValuation: the list that is written back
saveValuation(valuations, record, now) ==
    <<spread(record, [id |-> generateId(now), createdAt |-> now])>>
        \o valuations

\* updateValuation: the list that is written back (index !== -1)
updateValuation(valuations, id, updates, now) ==
    [valuations EXCEPT ![findIndex(valuations, id)] =
        spread(spread(@, updates), [updatedAt |-> now])]

RECURSIVE filterOutId(_, _)
\* valuations.filter(v => v.id !== id)
filterOutId(valuations, id) ==
    IF valuations = <<>> THEN <<>>
    ELSE IF Head(valuations).id = id THEN filterOutId(Tail(valuations), id)
    ELSE <<Head(valuations)>> \o filterOutId(Tail(valuations), id)

RECURSIVE newValuations(_, _)
\* imported.filter(v => !existingIds.has(v.id))
newValuations(imported, existing) ==
    IF imported = <<>> THEN <<>>
    ELSE IF \E i \in DOMAIN existing : existing[i].id = Head(imported).id
         THEN newValuations(Tail(imported), existing)
    ELSE <<Head(imported)>> \o newValuations(Tail(imported), existing)

\* mutant: the imported records are placed after the existing ones
importCombinedAfter(imported, existing) ==
    existing \o newValuations(imported, existing)

\* importValuationsFromJson: const combined = [...newValuations, ...existing]
importCombined(imported, existing) ==
    newValuations(imported, existing) \o existing

\* JSON.parse(JSON.stringify(valuations))
RECURSIVE jsonList(_)
jsonList(valuations) ==
    IF valuations = <<>> THEN <<>>
    ELSE <<jsonRecord(Head(valuations))>> \o jsonList(Tail(valuations))

LibraryIdle ==
    /\ storage = <<>>
    /\ clock = 0

NoRecord == [id |-> 0]

NoJson == [kind |-> "none", items |-> <<>>]

\* the last call: its name, arguments and what it returned
NoEvent ==
    [op |-> "none", id |-> 0, record |-> NoRecord, json |-> NoJson,
     returned |-> "none", count |-> 0]

\* -------------------------------------------- ValuationTool: form state
sliderMeta ==
    [arr             |-> [min |-> 0, max |-> 200 * ONE],
     monthlyGrowth   |-> [min |-> 0, max |-> 50 * ONE],
     tam             |-> [min |-> Dec(1, 10), max |-> 500 * ONE],
     grossMargin     |-> [min |-> 20 * ONE, max |-> 95 * ONE],
     netRetention    |-> [min |-> 50 * ONE, max |-> 180 * ONE],
     burnMultiple    |-> [min |-> 0, max |-> 5 * ONE],
     teamStrength    |-> [min |-> ONE, max |-> 5 * ONE],
     differentiation |-> [min |-> ONE, max |-> 5 * ONE]]

\* Number(value.toFixed(3)) for value >= 0: rounded to three decimals
toFixed3(value) == ((value + ONE \div 2000) \div (ONE \div 1000)) * (ONE \div 1000)

\* mutant: the raw value is stored without clamping
nextValueUnclamped(field, rawValue, current) ==
    toFixed3(safeNumber(rawValue, current[field].v))

\* handleNumberChange: the value stored for the edited field
nextValue(field, rawValue, current) ==
    toFixed3(clamp(safeNumber(rawValue, current[field].v),
                   sliderMeta[field].min, sliderMeta[field].max))

telemetryInitialState == [inputInteractions |-> 0, scenarioRenders |-> 0]

telemetryReducer(state, type) ==
    IF type = "input"
    THEN [state EXCEPT !.inputInteractions = @ + 1]
    ELSE IF type = "scenario"
    THEN [state EXCEPT !.scenarioRenders = @ + 1]
    ELSE state

FormIdle ==
    /\ session = [user |-> FALSE, editId |-> 0, loadingEdit |-> FALSE]
    /\ table = {}
    /\ telemetryState = telemetryInitialState

\* ------------------------------------------ analytics/telemetry.ts: state
\* subscriber functions that client code may register
Subscribers == {"a", "b", "c"}

\* subscribers.delete(subscriber), on the Set in insertion order
RECURSIVE setDelete(_, _)
setDelete(set, subscriber) ==
    IF set = <<>> THEN <<>>
    ELSE IF Head(set) = subscriber THEN setDelete(Tail(set), subscriber)
    ELSE <<Head(set)>> \o setDelete(Tail(set), subscriber)

setHas(set, subscriber) == \E i \in DOMAIN set : set[i] = subscriber

\* subscribers.add(subscriber): a member is not added again
setAdd(set, subscriber) ==
    IF setHas(set, subscriber) THEN set ELSE Append(set, subscriber)

\* mutant: a throwing subscriber ends the forEach
remainingAfterCallAbortsOnThrow(queue, threw) ==
    IF threw THEN <<>> ELSE Tail(queue)

\* subscribers.forEach with try/catch around each call: the entries still to
\* be visited after the call of the first one
remainingAfterCall(queue, threw) == Tail(queue)

NoDispatch ==
    [pc |-> "idle", queue |-> <<>>, eventNo |-> 0, registered |-> {},
     changes |-> 0, threw |-> {}]

TelemetryIdle ==
    /\ subscribers = <<>>
    /\ dispatch = NoDispatch
    /\ received = [f \in Subscribers |-> <<>>]

\* ---------------------------------------------------------- state machine
Init ==
    /\ \/ inputs \in ScenarioInputs
       \/ \E ex \in ExoticSets :
          \E stage \in StageKeys,
          arr \in FieldValues(ex, "arr"),
          monthlyGrowth \in FieldValues(ex, "monthlyGrowth"),
          tam \in FieldValues(ex, "tam"),
          grossMargin \in FieldValues(ex, "grossMargin"),
          netRetention \in FieldValues(ex, "netRetention"),
          burnMultiple \in FieldValues(ex, "burnMultiple"),
          teamStrength \in FieldValues(ex, "teamStrength"),
          differentiation \in FieldValues(ex, "differentiation") :
            inputs = [stage |-> stage, arr |-> arr, monthlyGrowth |-> monthlyGrowth,
                      tam |-> tam, grossMargin |-> grossMargin,
                      netRetention |-> netRetention, burnMultiple |-> burnMultiple,
                      teamStrength |-> teamStrength,
                      differentiation |-> differentiation]
    /\ pc = "ready"
    /\ valuation = NoValuation
    /\ method = "none"
    /\ insights = <<>>
    /\ insightsPc = "ready"
    /\ LibraryIdle
    /\ event = NoEvent
    /\ FormIdle
    /\ TelemetryIdle

\* const valuation = buildValuation(inputs)
Compute ==
    /\ pc = "ready"
    /\ IF hasStage(inputs.stage)
       THEN /\ valuation' = buildValuation(inputs)
            /\ method' = methodOf(inputs)
            /\ pc' = "returned"
       ELSE /\ valuation' = NoValuation
            /\ method' = "none"
            /\ pc' = "threw"
    /\ UNCHANGED <<inputs, insights, insightsPc, libraryVars, event, formVars, telemetryVars>>

\* const insights = buildInsights(inputs, valuation)
Insights ==
    /\ pc = "returned"
    /\ insightsPc = "ready"
    /\ IF buildInsightsThrows(inputs)
       THEN /\ insights' = <<>>
            /\ insightsPc' = "threw"
       ELSE /\ insights' = buildInsights(inputs, valuation)
            /\ insightsPc' = "returned"
    /\ UNCHANGED <<inputs, pc, valuation, method, libraryVars, event, formVars, telemetryVars>>

Next == Compute \/ Insights

Spec == Init /\ [][Next]_vars

\* ------------------------------------------------ local library: calls
defaultInputs ==
    [stage |-> "seed", arr |-> V(0), monthlyGrowth |-> V(0), tam |-> V(100),
     grossMargin |-> V(7000), netRetention |-> V(10000), burnMultiple |-> V(200),
     teamStrength |-> V(300), differentiation |-> V(300)]

\* input records of the valuations a caller saves
LibraryInputs ==
    {defaultInputs,
     [stage |-> "seriesA", arr |-> V(200), monthlyGrowth |-> V(1500),
      tam |-> NaN, grossMargin |-> V(7500), netRetention |-> V(11000),
      burnMultiple |-> V(100), teamStrength |-> V(400), differentiation |-> V(400)]}

\* the Omit<SavedValuation, 'id' | 'createdAt'> a caller builds from the
\* inputs and the snapshot computed for them
savedFields(in, companyName) ==
    LET snapshot == buildValuation(in)
    IN  spread(in,
               [companyName |-> companyName,
                bear |-> snapshot.bear, base |-> snapshot.base,
                bull |-> snapshot.bull,
                revenueMultiple |-> snapshot.revenueMultiple,
                confidence |-> snapshot.confidence])

\* Partial<Omit<SavedValuation, 'id' | 'createdAt'>> values passed as updates
LibraryUpdates ==
    {savedFields(in, "Acme") : in \in LibraryInputs}
        \cup {[arr |-> V(200)], [companyName |-> "Renamed"]}

\* at most this many library calls are made
MaxClock == 3

\* at most this many records are in one imported array
MaxImport == 2

\* ids a caller can name: ids generated so far, or one that never was
KnownIds == {1} \cup {generateId(n) : n \in 1..clock}

\* records of an exported backup or of another browser
ImportRecords ==
    {spread(savedFields(defaultInputs, "Imported"), [id |-> id, createdAt |-> 0]) :
        id \in KnownIds}

\* the argument of importValuationsFromJson, parsed
JsonTexts ==
    {[kind |-> "invalid", items |-> <<>>], [kind |-> "object", items |-> <<>>]}
        \cup {[kind |-> "array", items |-> items] :
                 items \in UNION {[1..n -> ImportRecords] : n \in 0..MaxImport}}

Called(op, id, record, json, returned, count) ==
    event' = [op |-> op, id |-> id, record |-> record, json |-> json,
              returned |-> returned, count |-> count]

SaveValuation ==
    /\ clock < MaxClock
    /\ clock' = clock + 1
    /\ \E in \in LibraryInputs, setItemThrows \in BOOLEAN :
         LET record == savedFields(in, "Acme") IN
         IF setItemThrows
         THEN /\ storage' = storage
              /\ Called("saveValuation", 0, record, NoJson, "threw", 0)
         ELSE /\ storage' = jsonList(saveValuation(storage, record, clock'))
              /\ Called("saveValuation", generateId(clock'), record, NoJson,
                        "record", 0)
    /\ UNCHANGED <<toolVars, formVars, telemetryVars>>

UpdateValuation ==
    /\ clock < MaxClock
    /\ clock' = clock + 1
    /\ \E id \in KnownIds, updates \in LibraryUpdates, setItemThrows \in BOOLEAN :
         IF findIndex(storage, id) = 0
         THEN /\ storage' = storage
              /\ Called("updateValuation", id, updates, NoJson, "null", 0)
         ELSE IF setItemThrows
         THEN /\ storage' = storage
              /\ Called("updateValuation", id, updates, NoJson, "threw", 0)
         ELSE /\ storage' = jsonList(updateValuation(storage, id, updates, clock'))
              /\ Called("updateValuation", id, updates, NoJson, "record", 0)
    /\ UNCHANGED <<toolVars, formVars, telemetryVars>>

DeleteValuation ==
    /\ clock < MaxClock
    /\ clock' = clock + 1
    /\ \E id \in KnownIds, setItemThrows \in BOOLEAN :
         IF Len(filterOutId(storage, id)) = Len(storage) \/ setItemThrows
         THEN /\ storage' = storage
              /\ Called("deleteValuation", id, NoRecord, NoJson, "false", 0)
         ELSE /\ storage' = jsonList(filterOutId(storage, id))
              /\ Called("deleteValuation", id, NoRecord, NoJson, "true", 0)
    /\ UNCHANGED <<toolVars, formVars, telemetryVars>>

ClearAllValuations ==
    /\ clock < MaxClock
    /\ clock' = clock + 1
    /\ storage' = <<>>
    /\ Called("clearAllValuations", 0, NoRecord, NoJson, "void", 0)
    /\ UNCHANGED <<toolVars, formVars, telemetryVars>>

ImportValuationsFromJson ==
    /\ clock < MaxClock
    /\ clock' = clock + 1
    /\ \E json \in JsonTexts, setItemThrows \in BOOLEAN :
         IF json.kind # "array" \/ setItemThrows
         THEN /\ storage' = storage
              /\ Called("importValuationsFromJson", 0, NoRecord, json,
                        "threw", 0)
         ELSE /\ storage' = jsonList(importCombined(json.items, storage))
              /\ Called("importValuationsFromJson", 0, NoRecord, json,
                        "count", Len(newValuations(json.items, storage)))
    /\ UNCHANGED <<toolVars, formVars, telemetryVars>>

LibraryInit ==
    /\ inputs = defaultInputs
    /\ pc = "ready"
    /\ valuation = NoValuation
    /\ method = "none"
    /\ insights = <<>>
    /\ insightsPc = "ready"
    /\ LibraryIdle
    /\ event = NoEvent
    /\ FormIdle
    /\ TelemetryIdle

LibraryNext ==
    \/ SaveValuation
    \/ UpdateValuation
    \/ DeleteValuation
    \/ ClearAllValuations
    \/ ImportValuationsFromJson

LibrarySpec == LibraryInit /\ [][LibraryNext]_vars

\* ------------------------------------------------- ValuationTool: events
\* the row handleSave writes for the current inputs and valuation
recordOf(in, snapshot) ==
    [startup_name |-> in.name, stage |-> in.stage, arr |-> in.arr,
     monthly_growth |-> in.monthlyGrowth, tam |-> in.tam,
     gross_margin |-> in.grossMargin, net_retention |-> in.netRetention,
     burn_multiple |-> in.burnMultiple, team_strength |-> in.teamStrength,
     differentiation |-> in.differentiation,
     bear_valuation |-> snapshot.bear, base_valuation |-> snapshot.base,
     bull_valuation |-> snapshot.bull,
     revenue_multiple |-> snapshot.revenueMultiple,
     confidence |-> snapshot.confidence]

\* loadValuation: the inputs set from a row
inputsOf(data) ==
    [name |-> data.startup_name, stage |-> data.stage, arr |-> data.arr,
     monthlyGrowth |-> data.monthly_growth, tam |-> data.tam,
     grossMargin |-> data.gross_margin, netRetention |-> data.net_retention,
     burnMultiple |-> data.burn_multiple, teamStrength |-> data.team_strength,
     differentiation |-> data.differentiation]

formDefaults == spread(defaultInputs, [name |-> ""])

\* rows of the valuations table when the form opens: row 1 was saved by the
\* form, row 2 was inserted by another client of the same user (the column
\* is `stage TEXT NOT NULL`, every DECIMAL column takes any number)
StoredRows ==
    {spread(recordOf(spread(defaultInputs, [name |-> "Acme"]),
                     buildValuation(defaultInputs)),
            [id |-> 1, updated_at |-> 0]),
     spread(recordOf([name |-> "Legacy", stage |-> "growth", arr |-> V(50000),
                      monthlyGrowth |-> V(1000), tam |-> V(1000),
                      grossMargin |-> V(7000), netRetention |-> V(10000),
                      burnMultiple |-> V(800), teamStrength |-> V(300),
                      differentiation |-> V(300)],
                     NoValuation),
            [id |-> 2, updated_at |-> 0])}

\* the ?id= values of the page URL (0: none; 3: no such row)
EditIds == {0, 1, 2, 3}

\* raw values a slider or number box can deliver
FormRawValues ==
    [arr             |-> {V(-500), Num(20004), V(100000)},
     monthlyGrowth   |-> {V(-300), Num(150006), V(8000)},
     tam             |-> {V(0), Num(1004), V(60000)},
     grossMargin     |-> {V(1000), Num(800004), V(12000)},
     netRetention    |-> {V(2000), Num(1200006), V(20000)},
     burnMultiple    |-> {V(-100), Num(14996), V(700)},
     teamStrength    |-> {V(0), Num(45004), V(900)},
     differentiation |-> {V(50), Num(20006), V(600)}]

\* at most this many events are handled by one form
MaxFormClock == 2

Handled(op, field, finite, returned) ==
    event' = [op |-> op, field |-> field, finite |-> finite, returned |-> returned]

\* the render that follows setInputs(next), and its scenario_rendered effect
Render(next, state) ==
    /\ inputs' = next
    /\ IF hasStage(next.stage)
       THEN /\ valuation' = buildValuation(next)
            /\ method' = methodOf(next)
            /\ pc' = "returned"
            /\ IF buildInsightsThrows(next)
               THEN insights' = <<>> /\ insightsPc' = "threw"
               ELSE /\ insights' = buildInsights(next, buildValuation(next))
                    /\ insightsPc' = "returned"
            /\ telemetryState' = telemetryReducer(state, "scenario")
       ELSE /\ valuation' = NoValuation
            /\ method' = "none"
            /\ pc' = "threw"
            /\ insights' = <<>>
            /\ insightsPc' = "ready"
            /\ telemetryState' = state

FormReady ==
    /\ pc = "returned"
    /\ ~session.loadingEdit
    /\ clock < MaxFormClock
    /\ clock' = clock + 1

LoadValuation ==
    /\ pc = "returned"
    /\ session.loadingEdit
    /\ clock < MaxFormClock
    /\ clock' = clock + 1
    /\ session' = [session EXCEPT !.loadingEdit = FALSE]
    /\ IF \E data \in table : data.id = session.editId
       THEN /\ Render(inputsOf(CHOOSE data \in table : data.id = session.editId),
                      telemetryState)
            /\ Handled("loadValuation", "", TRUE, "loaded")
       ELSE /\ Handled("loadValuation", "", TRUE, "error")
            /\ UNCHANGED <<toolVars, telemetryState>>
    /\ UNCHANGED <<table, storage, telemetryVars>>

HandleNumberChange ==
    /\ FormReady
    /\ \E field \in NumericKeys :
       \E rawValue \in FormRawValues[field] \cup {NaN, PosInfinity} :
         /\ Render([inputs EXCEPT ![field] = Num(nextValue(field, rawValue, inputs))],
                   telemetryReducer(telemetryState, "input"))
         /\ Handled("handleNumberChange", field, isFinite(rawValue), "")
    /\ UNCHANGED <<session, table, storage, telemetryVars>>

HandleNameChange ==
    /\ FormReady
    /\ \E value \in {"", "Acme"} :
         Render([inputs EXCEPT !.name = value],
                telemetryReducer(telemetryState, "input"))
    /\ Handled("handleNameChange", "name", TRUE, "")
    /\ UNCHANGED <<session, table, storage, telemetryVars>>

HandleStageChange ==
    /\ FormReady
    /\ \E value \in StageKeys :
         Render([inputs EXCEPT !.stage = value],
                telemetryReducer(telemetryState, "input"))
    /\ Handled("handleStageChange", "stage", TRUE, "")
    /\ UNCHANGED <<session, table, storage, telemetryVars>>

HandleSave ==
    /\ FormReady
    /\ IF ~session.user
       THEN /\ Handled("handleSave", "", TRUE, "login")
            /\ UNCHANGED table
       ELSE IF inputs.name = ""
       THEN /\ Handled("handleSave", "", TRUE, "nameRequired")
            /\ UNCHANGED table
       ELSE \E failed \in BOOLEAN :
            IF failed
            THEN /\ Handled("handleSave", "", TRUE, "failed")
                 /\ UNCHANGED table
            ELSE IF session.editId # 0
            THEN /\ table' =
                      {IF row.id = session.editId
                       THEN spread(row, spread(recordOf(inputs, valuation),
                                               [updated_at |-> clock']))
                       ELSE row : row \in table}
                 /\ Handled("handleSave", "", TRUE, "updated")
            ELSE /\ table' = table \cup
                      {spread(recordOf(inputs, valuation),
                              [id |-> 100 + clock', updated_at |-> clock'])}
                 /\ Handled("handleSave", "", TRUE, "saved")
    /\ UNCHANGED <<toolVars, session, telemetryState, storage, telemetryVars>>

FormInit ==
    /\ inputs = formDefaults
    /\ pc = "returned"
    /\ valuation = buildValuation(formDefaults)
    /\ method = methodOf(formDefaults)
    /\ insights = buildInsights(formDefaults, buildValuation(formDefaults))
    /\ insightsPc = "returned"
    /\ LibraryIdle
    /\ event = [op |-> "none", field |-> "", finite |-> TRUE, returned |-> ""]
    /\ \E user \in BOOLEAN, editId \in EditIds :
         session = [user |-> user, editId |-> editId,
                    loadingEdit |-> (editId # 0 /\ user)]
    /\ table = StoredRows
    /\ telemetryState = telemetryReducer(telemetryInitialState, "scenario")
    /\ TelemetryIdle

FormNext ==
    \/ LoadValuation
    \/ HandleNumberChange
    \/ HandleNameChange
    \/ HandleStageChange
    \/ HandleSave

FormSpec == FormInit /\ [][FormNext]_vars

\* ------------------------------------------ analytics/telemetry.ts: calls
\* at most this many events are tracked
MaxTracks == 2

\* at most this many registrations change while one event is dispatched
MaxChanges == 2

\* telemetry.subscribe(subscriber), called by client code between events
Subscribe ==
    /\ dispatch.pc # "dispatching"
    /\ \E subscriber \in Subscribers :
         subscribers' = setAdd(subscribers, subscriber)
    /\ UNCHANGED <<dispatch, received>>
    /\ UNCHANGED <<toolVars, libraryVars, event, formVars>>

\* the function returned by subscribe, called by client code between events
Unsubscribe ==
    /\ dispatch.pc # "dispatching"
    /\ \E subscriber \in Subscribers :
         subscribers' = setDelete(subscribers, subscriber)
    /\ UNCHANGED <<dispatch, received>>
    /\ UNCHANGED <<toolVars, libraryVars, event, formVars>>

\* telemetry.track(name, payload) up to the forEach
Track ==
    /\ dispatch.pc # "dispatching"
    /\ dispatch.eventNo < MaxTracks
    /\ dispatch' = [pc |-> "dispatching", queue |-> subscribers,
                    eventNo |-> dispatch.eventNo + 1,
                    registered |-> {subscribers[i] : i \in DOMAIN subscribers},
                    changes |-> 0, threw |-> {}]
    /\ UNCHANGED <<subscribers, received>>
    /\ UNCHANGED <<toolVars, libraryVars, event, formVars>>

\* one iteration of the forEach: subscriber(event) returns or throws
Deliver ==
    /\ dispatch.pc = "dispatching"
    /\ dispatch.queue # <<>>
    /\ \E threw \in BOOLEAN :
         dispatch' = [dispatch EXCEPT
                         !.queue = remainingAfterCall(@, threw),
                         !.threw = IF threw THEN @ \cup {Head(dispatch.queue)}
                                   ELSE @]
    /\ received' = [received EXCEPT ![Head(dispatch.queue)] =
                        Append(@, dispatch.eventNo)]
    /\ UNCHANGED subscribers
    /\ UNCHANGED <<toolVars, libraryVars, event, formVars>>

\* one iteration in which the subscriber unsubscribes some subscriber before
\* it returns or throws
DeliverUnsubscribing ==
    /\ dispatch.pc = "dispatching"
    /\ dispatch.queue # <<>>
    /\ dispatch.changes < MaxChanges
    /\ \E threw \in BOOLEAN, removed \in Subscribers :
         /\ subscribers' = setDelete(subscribers, removed)
         /\ dispatch' = [dispatch EXCEPT
                 !.queue = setDelete(remainingAfterCall(@, threw), removed),
                 !.changes = @ + 1,
                 !.threw = IF threw THEN @ \cup {Head(dispatch.queue)} ELSE @]
    /\ received' = [received EXCEPT ![Head(dispatch.queue)] =
                        Append(@, dispatch.eventNo)]
    /\ UNCHANGED <<toolVars, libraryVars, event, formVars>>

\* one iteration in which the subscriber subscribes some subscriber before it
\* returns or throws: forEach also visits an entry added during the iteration
DeliverSubscribing ==
    /\ dispatch.pc = "dispatching"
    /\ dispatch.queue # <<>>
    /\ dispatch.changes < MaxChanges
    /\ \E threw \in BOOLEAN, added \in Subscribers :
         /\ subscribers' = setAdd(subscribers, added)
         /\ dispatch' = [dispatch EXCEPT
                 !.queue = IF setHas(subscribers, added)
                           THEN remainingAfterCall(@, threw)
                           ELSE Append(remainingAfterCall(@, threw), added),
                 !.changes = @ + 1,
                 !.threw = IF threw THEN @ \cup {Head(dispatch.queue)} ELSE @]
    /\ received' = [received EXCEPT ![Head(dispatch.queue)] =
                        Append(@, dispatch.eventNo)]
    /\ UNCHANGED <<toolVars, libraryVars, event, formVars>>

\* how track ends: whatever was thrown inside, the catch blocks swallow it
trackOutcome(thrownInside) == "returned"

\* the forEach is done; a sendBeacon failure is swallowed; track returns
TrackReturn ==
    /\ dispatch.pc = "dispatching"
    /\ dispatch.queue = <<>>
    /\ \E beaconThrows \in BOOLEAN :
         dispatch' = [dispatch EXCEPT
                         !.pc = trackOutcome(beaconThrows \/ dispatch.threw # {})]
    /\ UNCHANGED <<subscribers, received>>
    /\ UNCHANGED <<toolVars, libraryVars, event, formVars>>

TelemetryInit ==
    /\ inputs = defaultInputs
    /\ pc = "ready"
    /\ valuation = NoValuation
    /\ method = "none"
    /\ insights = <<>>
    /\ insightsPc = "ready"
    /\ LibraryIdle
    /\ event = NoEvent
    /\ FormIdle
    /\ TelemetryIdle

TelemetryNext ==
    \/ Subscribe
    \/ Unsubscribe
    \/ Track
    \/ Deliver
    \/ DeliverUnsubscribing
    \/ DeliverSubscribing
    \/ TrackReturn

TelemetrySpec == TelemetryInit /\ [][TelemetryNext]_vars

\* ------------------------------------------------------------------ claims
\* C1: for every stage and every numeric input record, out-of-range and
\* non-finite fields included, the returned snapshot has bear <= base <= bull.
C1_ScenarioOrdering ==
    pc = "returned" => valuation.bear <= valuation.base /\ valuation.base <= valuation.bull

\* a snapshot with a strict spread was returned for a record with a non-finite field
C1_Witness ==
    /\ pc = "returned"
    /\ \E k \in NumericKeys : ~isFinite(inputs[k])
    /\ valuation.bear < valuation.base
    /\ valuation.base < valuation.bull

\* C2: for every stage and every input record the returned confidence lies
\* in the closed interval [0.25, 0.90].
C2_ConfidenceRange ==
    pc = "returned" =>
        Dec(25, 100) <= valuation.confidence /\ valuation.confidence <= Dec(90, 100)

\* the upper clamp is the binding value: the unclamped sum exceeds 0.90
C2_Witness ==
    /\ pc = "returned"
    /\ valuation.confidence = Dec(90, 100)
    /\ inputs.netRetention = V(13000)
    /\ inputs.burnMultiple = V(0)

\* The normalization of section 4.1: a non-finite field becomes 0, then each
\* field is brought into its documented domain.
Finite0(x) == IF x.t = "num" THEN x.v ELSE 0

Within(x, lo, hi) == IF x < lo THEN lo ELSE IF x > hi THEN hi ELSE x

AtLeast(x, lo) == IF x < lo THEN lo ELSE x

Normalize(in) ==
    [stage           |-> in.stage,
     arr             |-> Num(AtLeast(Finite0(in.arr), 0)),
     monthlyGrowth   |-> Num(Within(Finite0(in.monthlyGrowth), 0, 50 * ONE)),
     tam             |-> Num(AtLeast(Finite0(in.tam), ONE \div 10)),
     grossMargin     |-> Num(Within(Finite0(in.grossMargin), 20 * ONE, 95 * ONE)),
     netRetention    |-> Num(Within(Finite0(in.netRetention), 50 * ONE, 180 * ONE)),
     burnMultiple    |-> Num(Within(Finite0(in.burnMultiple), 0, 5 * ONE)),
     teamStrength    |-> Num(Within(Finite0(in.teamStrength), 1 * ONE, 5 * ONE)),
     differentiation |-> Num(Within(Finite0(in.differentiation), 1 * ONE, 5 * ONE))]

C5_NormalizedEquivalence ==
    pc = "returned" =>
        /\ valuation = buildValuation(Normalize(inputs))
        /\ inputs.arr = V(-500) =>
               valuation = buildValuation([inputs EXCEPT !.arr = V(0)])

\* a record with ARR = -5 was valued, and normalization changes the record
C5_Witness ==
    /\ pc = "returned"
    /\ inputs.arr = V(-500)
    /\ inputs.stage = "seriesA"
    /\ Normalize(inputs) # inputs

\* C6: for each of the five stage keys and every combination of numeric
\* inputs the engine raises no error and returns a snapshot with every field set.
C6_Total ==
    /\ pc # "threw"
    /\ pc = "returned" =>
           /\ DOMAIN valuation = DOMAIN NoValuation
           /\ DOMAIN valuation.lifts = DOMAIN NoValuation.lifts
           /\ \A f \in {"bear", "base", "bull", "revenueMultiple", "confidence",
                        "forwardArr", "marketPotential"} : valuation[f] \in Nat
           /\ \A f \in DOMAIN valuation.lifts : valuation.lifts[f] \in Nat
           /\ valuation.stageLabel # ""

\* a snapshot was returned for a seriesC record whose ARR is missing
C6_Witness ==
    /\ pc = "returned"
    /\ inputs.stage = "seriesC"
    /\ inputs.arr = Undefined

NormalizedArrUsd(in) == Mul(Normalize(in).arr.v, 1000000 \div KUSD)

\* the sum of the five Berkus components of section 4.3, in thousands of dollars
BerkusSum(in) ==
    LET n == Normalize(in)
        cap500 == 500000 \div KUSD
        idea == (n.differentiation.v * cap500) \div (5 * ONE)
        prototype == IF n.arr.v > 0 THEN (cap500 * 8) \div 10
                     ELSE IF n.monthlyGrowth.v > 0 THEN (cap500 * 5) \div 10
                     ELSE (cap500 * 2) \div 10
        team == (n.teamStrength.v * cap500) \div (5 * ONE)
        strategic == ((n.teamStrength.v + n.differentiation.v) * (300000 \div KUSD))
                         \div (10 * ONE)
        timing == IF n.tam.v > 10 * ONE THEN ((200000 \div KUSD) * 7) \div 10
                  ELSE ((200000 \div KUSD) * 4) \div 10
    IN  idea + prototype + team + strategic + timing

\* C8: in the Berkus branch base is the sum of the five components clamped to
\* the stage's [floor, ceiling], so base lies within [floor, ceiling], and
\* marketPotential is 10% of the unclamped sum (and does not enter base).
C8_BerkusBase ==
    (pc = "returned" /\ method = "berkus") =>
        LET floor == stageConfig[inputs.stage].baseValuationFloor
            ceiling == stageConfig[inputs.stage].baseValuationCeiling
        IN  /\ valuation.base = Within(BerkusSum(inputs), floor, ceiling)
            /\ floor <= valuation.base
            /\ valuation.base <= ceiling
            /\ valuation.marketPotential = BerkusSum(inputs) \div 10

\* a concept company whose Berkus sum lies strictly inside the stage range
C8_Witness ==
    /\ pc = "returned"
    /\ method = "berkus"
    /\ inputs.stage = "concept"
    /\ valuation.base = BerkusSum(inputs)
    /\ valuation.base > stageConfig.concept.baseValuationFloor
    /\ valuation.marketPotential > 0

C10_ZeroArrFloor ==
    (pc = "returned" /\ NormalizedArrUsd(inputs) = 0) =>
        valuation.base >= stageConfig[inputs.stage].baseValuationFloor

\* The adjustments of section 4.4, on normalized values.
MarginFactor(margin) ==
    IF margin < 60 * ONE THEN (8 * ONE) \div 10
    ELSE IF margin > 80 * ONE THEN (11 * ONE) \div 10 ELSE ONE

RetentionFactor(retention) ==
    IF retention < 90 * ONE THEN (85 * ONE) \div 100
    ELSE IF retention > 120 * ONE THEN (115 * ONE) \div 100 ELSE ONE

BurnFactor(burn) ==
    CASE burn = 0 -> (120 * ONE) \div 100
      [] burn > 0 /\ 10 * burn < 10 * ONE -> (115 * ONE) \div 100
      [] 10 * burn >= 10 * ONE /\ 10 * burn < 15 * ONE -> (110 * ONE) \div 100
      [] 10 * burn >= 15 * ONE /\ 10 * burn < 20 * ONE -> ONE
      [] 10 * burn >= 20 * ONE /\ 10 * burn < 30 * ONE -> (90 * ONE) \div 100
      [] 10 * burn >= 30 * ONE -> (75 * ONE) \div 100

QualitativeFactor(team, differentiation) ==
    (85 * ONE) \div 100 + (3 * (team + differentiation)) \div 100

\* the annual growth the snapshot reports (lifts.growth is 1 + annualGrowth)
ReportedAnnualGrowth == valuation.lifts.growth - ONE

\* the product of base multiple and adjustments before the clamp (section 4.4, steps 1-3)
UnclampedMultiple(in) ==
    LET n == Normalize(in)
        range == stageConfig[in.stage].revenueMultipleRange
        score == Within(ReportedAnnualGrowth, 0, ONE)
        baseMult == range[1] * ONE + (range[2] - range[1]) * score
    IN  Mul(Mul(Mul(Mul(baseMult, MarginFactor(n.grossMargin.v)),
                    RetentionFactor(n.netRetention.v)),
                BurnFactor(n.burnMultiple.v)),
            QualitativeFactor(n.teamStrength.v, n.differentiation.v))

CaptureRate(stageKey) ==
    CASE stageKey = "seriesC" -> ONE \div 1000
      [] stageKey = "seriesB" -> (5 * ONE) \div 10000
      [] OTHER -> (2 * ONE) \div 10000

\* the normalized TAM of a record, in thousands of dollars
NormalizedTamUsd(in) == Mul(Normalize(in).tam.v, 1000000000 \div KUSD)

UpsideOf(annualGrowth, differentiation) ==
    Within((15 * ONE) \div 100 + Mul(annualGrowth, (15 * ONE) \div 100)
               + (differentiation - 3 * ONE) \div 50,
           ONE \div 10, (4 * ONE) \div 10)

DownsideOf(burn, team) ==
    Within((15 * ONE) \div 100
               + (IF burn > 2 * ONE THEN (8 * (burn - 2 * ONE)) \div 100 ELSE 0)
               + (5 * ONE - team) \div 50,
           ONE \div 10, (35 * ONE) \div 100)

\* C14: in both branches bull = base x (1 + upside) and bear = base x (1 -
\* downside), where upside depends only on the normalized growth and
\* differentiation and downside only on the normalized burn and team; stage,
\* ARR and the method branch enter only through base.
C14_SpreadFormula ==
    pc = "returned" =>
        LET n == Normalize(inputs)
            upside == UpsideOf(annualGrowthRateOf(n.monthlyGrowth.v), n.differentiation.v)
            downside == DownsideOf(n.burnMultiple.v, n.teamStrength.v)
        IN  /\ valuation.bull = Mul(valuation.base, ONE + upside)
            /\ valuation.bear = Mul(valuation.base, ONE - downside)

\* a Berkus-branch snapshot whose downside carries the burn penalty
C14_Witness ==
    /\ pc = "returned"
    /\ method = "berkus"
    /\ inputs.burnMultiple = V(250)
    /\ inputs.teamStrength = V(500)
    /\ valuation.bear = Mul(valuation.base, ONE - (19 * ONE) \div 100)
    /\ valuation.bear < valuation.base

\* the concept scenario: team 5, differentiation 5, TAM 20, ARR 0, growth 0
IsConceptScenario(in) ==
    /\ in.stage = "concept"
    /\ in.teamStrength = V(500)
    /\ in.differentiation = V(500)
    /\ in.tam = V(2000)
    /\ in.arr = V(0)
    /\ in.monthlyGrowth = V(0)

\* C15: for the concept scenario the Berkus components are 500,000 + 100,000
\* + 500,000 + 300,000 + 140,000 = 1,540,000, inside [250,000, 2,500,000], so
\* base = 1,540,000 exactly.
C15_ConceptScenario ==
    (pc = "returned" /\ IsConceptScenario(inputs)) =>
        LET arrUsd == arrUsdOf(arrOf(inputs))
        IN  /\ ideaValue(moatOf(inputs)) = 500000 \div KUSD
            /\ prototypeValue(arrUsd, monthlyGrowthOf(inputs)) = 100000 \div KUSD
            /\ teamValue(teamOf(inputs)) = 500000 \div KUSD
            /\ strategicValue(teamOf(inputs), moatOf(inputs)) = 300000 \div KUSD
            /\ marketTimingValue(tamUsdOf(inputs)) = 140000 \div KUSD
            /\ method = "berkus"
            /\ stageConfig.concept.baseValuationFloor = 250000 \div KUSD
            /\ stageConfig.concept.baseValuationCeiling = 2500000 \div KUSD
            /\ valuation.base = 1540000 \div KUSD

\* the concept scenario was valued
C15_Witness ==
    /\ pc = "returned"
    /\ IsConceptScenario(inputs)
    /\ valuation.base > 0

\* the Series A scenario
IsSeriesAScenario(in) ==
    in = [stage |-> "seriesA", arr |-> V(200), monthlyGrowth |-> V(1500),
          tam |-> V(1000), grossMargin |-> V(7500), netRetention |-> V(11000),
          burnMultiple |-> V(100), teamStrength |-> V(400), differentiation |-> V(400)]

\* C16: for the Series A scenario growthScore = 1, baseMultiple = 25, the
\* margin and retention adjustments are 1.0, the burn adjustment 1.1, the
\* qualitative adjustment 1.09, the final multiple 29.975 (inside [5, 30]),
\* and base is $59.95M plus the market potential, below the $80M ceiling.
C16_SeriesAScenario ==
    (pc = "returned" /\ IsSeriesAScenario(inputs)) =>
        LET annualGrowthRate == annualGrowthRateOf(monthlyGrowthOf(inputs))
        IN  /\ growthScore(annualGrowthRate) = ONE
            /\ baseMultiple(stageConfig.seriesA, annualGrowthRate) = 25 * ONE
            /\ marginAdjustment(marginOf(inputs)) = ONE
            /\ retentionAdjustment(retentionOf(inputs)) = ONE
            /\ 10 * burnAdjustment(burnOf(inputs)) = 11 * ONE
            /\ 100 * qualitativeAdjustment(teamOf(inputs), moatOf(inputs)) = 109 * ONE
            /\ 1000 * valuation.revenueMultiple = 29975 * ONE
            /\ 5 * ONE <= valuation.revenueMultiple
            /\ valuation.revenueMultiple <= 30 * ONE
            /\ valuation.base = 59950000 \div KUSD + valuation.marketPotential
            /\ valuation.base < 80000000 \div KUSD

\* the Series A scenario was valued by the revenue multiple
C16_Witness ==
    /\ pc = "returned"
    /\ IsSeriesAScenario(inputs)
    /\ method = "revenue"
    /\ valuation.marketPotential > 0

\* (1 + monthlyGrowth/100)^12 - 1 by repeated squaring
CompoundedGrowth(monthlyGrowth) ==
    LET x == ONE + monthlyGrowth \div 100
        x2 == Mul(x, x)
        x4 == Mul(x2, x2)
        x8 == Mul(x4, x4)
    IN  Mul(x8, x4) - ONE

Distance(a, b) == IF a >= b THEN a - b ELSE b - a

\* C17 as stated: annualGrowth = (1 + monthlyGrowth/100)^12 - 1, and for
\* monthlyGrowth = 15 it is approximately 535% (within 5 percentage points).
C17_AnnualGrowthAsStated ==
    (pc = "returned" /\ Normalize(inputs).monthlyGrowth.v = 15 * ONE) =>
        /\ 530 * ONE <= 100 * ReportedAnnualGrowth
        /\ 100 * ReportedAnnualGrowth <= 540 * ONE

\* C17 (amended): annualGrowth = (1 + monthlyGrowth/100)^12 - 1 (to within
\* 0.1% of the compounded factor), and for monthlyGrowth = 15 it is
\* approximately 435%: 535% is the compounded factor 1 + annualGrowth.
C17_AnnualGrowth ==
    pc = "returned" =>
        LET g == Normalize(inputs).monthlyGrowth.v
        IN  /\ 1000 * Distance(ReportedAnnualGrowth, CompoundedGrowth(g))
                   <= ONE + CompoundedGrowth(g)
            /\ g = 15 * ONE =>
                   /\ 434 * ONE <= 100 * ReportedAnnualGrowth
                   /\ 100 * ReportedAnnualGrowth <= 436 * ONE
                   /\ 534 * ONE <= 100 * valuation.lifts.growth
                   /\ 100 * valuation.lifts.growth <= 536 * ONE

\* a record with 15% monthly growth was valued
C17_Witness ==
    /\ pc = "returned"
    /\ inputs.monthlyGrowth = V(1500)
    /\ ReportedAnnualGrowth > 4 * ONE

\* C18 as stated: in the revenue-multiple branch each reported lift equals
\* the multiplier applied to the base multiple (lifts.burn = 1.2 when burn = 0,
\* lifts.margin = 0.8 when margin < 60).
C18_LiftsAsStated ==
    (pc = "returned" /\ method = "revenue") =>
        LET n == Normalize(inputs)
        IN  /\ valuation.lifts.margin = MarginFactor(n.grossMargin.v)
            /\ valuation.lifts.retention = RetentionFactor(n.netRetention.v)
            /\ valuation.lifts.burn = BurnFactor(n.burnMultiple.v)
            /\ valuation.lifts.qualitative
                   = QualitativeFactor(n.teamStrength.v, n.differentiation.v)

\* C18 (amended): the lifts breakdown reports the normalized metrics behind
\* the adjustments, not the multipliers: growth = 1 + annualGrowth, margin =
\* margin/100, retention = retention/100, burn = the normalized burn multiple,
\* qualitative = (team + differentiation)/10; so lifts.burn = 0 when burn = 0
\* and lifts.margin < 0.6 when margin < 60.
C18_LiftsReportMetrics ==
    pc = "returned" =>
        LET n == Normalize(inputs)
        IN  /\ 1000 * Distance(valuation.lifts.growth - ONE,
                               CompoundedGrowth(n.monthlyGrowth.v))
                   <= valuation.lifts.growth
            /\ 100 * valuation.lifts.margin = n.grossMargin.v
            /\ 100 * valuation.lifts.retention = n.netRetention.v
            /\ valuation.lifts.burn = n.burnMultiple.v
            /\ 10 * valuation.lifts.qualitative = n.teamStrength.v + n.differentiation.v
            /\ n.burnMultiple.v = 0 => valuation.lifts.burn = 0
            /\ n.grossMargin.v < 60 * ONE => 10 * valuation.lifts.margin < 6 * ONE

\* a revenue-branch snapshot that applied the 1.2 burn premium and the 0.8
\* margin discount reports lifts.burn = 0 and lifts.margin = 0.5
C18_Witness ==
    /\ pc = "returned"
    /\ method = "revenue"
    /\ inputs.burnMultiple = V(0)
    /\ inputs.grossMargin = V(5000)
    /\ valuation.lifts.burn = 0
    /\ 2 * valuation.lifts.margin = ONE

\* The conditions of the insight list, read on the fields as they were
\* passed: a missing or NaN field satisfies no comparison.
RawBelow(x, bound) == (x.t = "num" /\ x.v < bound) \/ x.t = "-Infinity"

RawAbove(x, bound) == (x.t = "num" /\ x.v > bound) \/ x.t = "Infinity"

RawArrPositive == RawAbove(inputs.arr, 0)

\* passed ARR (in millions) below a dollar amount given in thousands
RawArrUsdBelow(kusd) ==
    \/ inputs.arr.t = "num" /\ inputs.arr.v < kusd * (ONE \div (1000000 \div KUSD))
    \/ inputs.arr.t = "-Infinity"

EfficiencyTags ==
    {"profitable", "highBurn", "efficientBurn", "lowRetention", "lowMargin", "bearCase"}

AdviceTags == {"toSeed", "toSeriesA", "toSeriesB"}

FirstEfficiencyMatch(efficient) ==
    IF inputs.burnMultiple = Num(0) THEN "profitable"
    ELSE IF RawAbove(inputs.burnMultiple, 3 * ONE) THEN "highBurn"
    ELSE IF efficient THEN "efficientBurn"
    ELSE IF RawBelow(inputs.netRetention, 90 * ONE) THEN "lowRetention"
    ELSE IF RawBelow(inputs.grossMargin, 50 * ONE) THEN "lowMargin"
    ELSE "bearCase"

ThirdEntryIs(tag) ==
    /\ Len(insights) >= 3
    /\ insights[3] = tag
    /\ \A i \in DOMAIN insights : insights[i] \in EfficiencyTags => i = 3

AdviceExpected(seedThresholdKusd) ==
    \/ inputs.stage = "concept"
    \/ inputs.stage = "seed" /\ RawArrUsdBelow(seedThresholdKusd)
    \/ inputs.stage = "seriesA" /\ RawAbove(inputs.netRetention, 110 * ONE)

ListShape(seedThresholdKusd) ==
    /\ Len(insights) \in {3, 4}
    /\ Len(insights) = 4 <=> AdviceExpected(seedThresholdKusd)
    /\ \A i \in DOMAIN insights : insights[i] \in AdviceTags <=> i = 4

C21_InsightsFollowValuation ==
    insightsPc = "returned" =>
        /\ insights[1] = "berkusMethod" <=> method = "berkus"
        /\ insights[3] = "profitable" <=>
               (method = "revenue" /\ valuation.lifts.burn = 0)

\* the output fields computeValuation gives for the input fields of a record
RecomputedOutputs(record) ==
    LET snapshot == buildValuation(record)
    IN  [k \in OutputKeys |-> snapshot[k]]

\* C22: after any sequence of save and update operations, every stored
\* record's output fields (bear, base, bull, revenueMultiple, confidence) equal
\* computeValuation applied to that record's stored input fields.
\* Violated: updateValuation merges a partial update into the stored record.
C22_RoundTrip ==
    \A i \in DOMAIN storage :
        [k \in OutputKeys |-> storage[i][k]] = RecomputedOutputs(storage[i])

\* C24: for every revenue-branch input the margin impact, retention impact
\* and burn efficiency shown in the methodology modal correspond to the
\* multipliers the engine applied (+10% to 1.1, -20% to 0.8, 0% to 1.0, ...).
\* Violated: the modal uses other tier boundaries and fewer burn tiers.
C24_ShownAdjustments ==
    (pc = "returned" /\ method = "revenue") =>
        /\ ONE + Dec(marginImpactShown(inputs), 100)
               = marginAdjustment(marginOf(inputs))
        /\ ONE + Dec(retentionImpactShown(inputs), 100)
               = retentionAdjustment(retentionOf(inputs))
        /\ ONE + Dec(burnEfficiencyShown(inputs), 100)
               = burnAdjustment(burnOf(inputs))

\* ARR values above the one of the current record
HigherArr == {a \in GridValues.arr : a.v > Finite0(inputs.arr)}

\* C25: for every stage, with all other inputs held fixed, increasing ARR
\* never decreases the base returned by computeValuation.
\* Violated across the seed method switch at $100,000 ARR.
C25_BaseMonotoneInArr ==
    pc = "returned" =>
        \A a \in HigherArr :
            buildValuation([inputs EXCEPT !.arr = a]).base >= valuation.base

\* the sums of section 4.5 before they are clamped
UnclampedUpside(n) ==
    (15 * ONE) \div 100
        + Mul(CompoundedGrowth(n.monthlyGrowth.v), (15 * ONE) \div 100)
        + (n.differentiation.v - 3 * ONE) \div 50

UnclampedDownside(n) ==
    (15 * ONE) \div 100
        + (IF n.burnMultiple.v > 2 * ONE
           THEN (8 * (n.burnMultiple.v - 2 * ONE)) \div 100 ELSE 0)
        + (5 * ONE - n.teamStrength.v) \div 50

\* C26: for every input with base > 0, bear < base < bull strictly, bear lies
\* between 65% and 85% of base and bull between 111% and 140% of base (amounts
\* are whole thousands of dollars, rounded down); the 0.10 lower clamps of the
\* two factors are never the binding value; when base = 0, bear = bull = 0.
C26_SpreadBounds ==
    pc = "returned" =>
        /\ UnclampedUpside(Normalize(inputs)) > ONE \div 10
        /\ UnclampedDownside(Normalize(inputs)) > ONE \div 10
        /\ IF valuation.base > 0
           THEN /\ valuation.bear < valuation.base
                /\ valuation.base < valuation.bull
                /\ 100 * (valuation.bear + 1) > 65 * valuation.base
                /\ 100 * valuation.bear <= 85 * valuation.base
                /\ 100 * (valuation.bull + 1) > 111 * valuation.base
                /\ 100 * valuation.bull <= 140 * valuation.base
           ELSE valuation.bear = 0 /\ valuation.bull = 0

\* both extremes at once: 11% upside (no growth, moat 1) and 35% downside
C26_Witness ==
    /\ pc = "returned"
    /\ valuation.base > 0
    /\ inputs.monthlyGrowth = V(0)
    /\ inputs.differentiation = V(100)
    /\ inputs.burnMultiple = V(400)
    /\ 100 * valuation.bull <= 111 * valuation.base
    /\ 100 * valuation.bear <= 65 * valuation.base

\* C23: in the ValuationTool, after any sequence of stage selections, numeric
\* edits and loads of a stored record, the stage passed to buildValuation is
\* one of concept, seed, seriesA, seriesB, seriesC.
\* Violated: loadValuation copies the stage column of the row unchecked.
C23_StageIsKnown == inputs.stage \in StageKeys

\* the slider ranges of the valuation form
FormRanges ==
    [arr             |-> <<0, 200 * ONE>>,
     monthlyGrowth   |-> <<0, 50 * ONE>>,
     tam             |-> <<ONE \div 10, 500 * ONE>>,
     grossMargin     |-> <<20 * ONE, 95 * ONE>>,
     netRetention    |-> <<50 * ONE, 180 * ONE>>,
     burnMultiple    |-> <<0, 5 * ONE>>,
     teamStrength    |-> <<ONE, 5 * ONE>>,
     differentiation |-> <<ONE, 5 * ONE>>]

FormInputsInRange ==
    \A k \in NumericKeys :
        /\ inputs[k].t = "num"
        /\ FormRanges[k][1] <= inputs[k].v
        /\ inputs[k].v <= FormRanges[k][2]

NumberChangeFrame ==
    event'.op = "handleNumberChange" =>
        /\ \A k \in DOMAIN inputs \ {event'.field} : inputs'[k] = inputs[k]
        /\ ~event'.finite => inputs' = inputs

\* C27: starting from defaultInputs (a form opened without a record to edit),
\* after any sequence of handleNumberChange calls with arbitrary raw values
\* every numeric input stays within its slider's [min, max]; a non-finite raw
\* value leaves the field at its previous value, and only the edited field
\* changes.
C27_FormInputsStayInRange ==
    /\ [](session.editId = 0 => FormInputsInRange)
    /\ [][session.editId = 0 => NumberChangeFrame]_vars

\* ARR was clamped to 200 by one edit and kept by a following NaN edit
C27_Witness ==
    /\ session.editId = 0
    /\ event.op = "handleNumberChange"
    /\ event.field = "arr"
    /\ ~event.finite
    /\ inputs.arr = Num(200 * ONE)

\* C28: starting from empty storage, after any sequence of saveValuation,
\* updateValuation, deleteValuation, importValuationsFromJson and
\* clearAllValuations no two stored records have the same id.
\* Violated: an imported array that repeats an id is added whole.
C28_UniqueIds ==
    \A i, j \in DOMAIN storage : storage[i].id = storage[j].id => i = j

StoredIds == {storage[i].id : i \in DOMAIN storage}

\* the imported records whose id is not stored, in their order
NotYetStored(items) ==
    LET IsNew(v) == v.id \notin StoredIds
    IN  SelectSeq(items, IsNew)

SaveFrame ==
    event'.op = "saveValuation" =>
        IF event'.returned = "record"
        THEN /\ storage' # <<>>
             /\ Head(storage').id = event'.id
             /\ \A k \in DOMAIN event'.record \ NumericKeys :
                    Head(storage')[k] = event'.record[k]
             /\ Tail(storage') = storage
        ELSE storage' = storage

ImportFrame ==
    event'.op = "importValuationsFromJson" =>
        /\ event'.json.kind # "array" => event'.returned = "threw"
        /\ IF event'.returned = "count"
           THEN /\ storage' = NotYetStored(event'.json.items) \o storage
                /\ event'.count = Len(NotYetStored(event'.json.items))
           ELSE storage' = storage

UnknownIdFrame ==
    event'.id \notin StoredIds =>
        /\ event'.op = "updateValuation" =>
               event'.returned = "null" /\ storage' = storage
        /\ event'.op = "deleteValuation" =>
               event'.returned = "false" /\ storage' = storage

\* C29: saveValuation puts the new record first and leaves the existing
\* records and their order unchanged; importValuationsFromJson adds only the
\* imported records whose id is not already stored, before the unchanged
\* existing records, and returns the number added; updateValuation and
\* deleteValuation with an id that is not stored return null / false and leave
\* storage unchanged; an import of non-array JSON throws and leaves storage
\* unchanged.
C29_LibraryFrame == [][SaveFrame /\ ImportFrame /\ UnknownIdFrame]_vars

\* an import of two records, one of them already stored, into a non-empty library
C29_Witness ==
    /\ event.op = "importValuationsFromJson"
    /\ Len(event.json.items) = 2
    /\ event.count = 1
    /\ Len(storage) >= 2

\* how often the event being dispatched has reached a subscriber
TimesReceived(f) ==
    Cardinality({i \in DOMAIN received[f] : received[f][i] = dispatch.eventNo})

DeliveredOnceToRegistered ==
    \A f \in dispatch.registered : TimesReceived(f) = 1

\* an event only reaches a subscriber that is registered when it is called
OnlyToRegistered ==
    \A f \in Subscribers : received'[f] # received[f] => setHas(subscribers, f)

\* C30 as stated: track never propagates an exception, each tracked event is
\* delivered exactly once to every subscriber registered at the moment of the
\* call even when another subscriber throws, and a removed subscriber receives
\* no later events.  Violated: a subscriber that an earlier subscriber's
\* callback unsubscribes before its turn misses the event.
C30_DeliveryAsStated ==
    /\ [](dispatch.pc # "threw")
    /\ [](dispatch.pc = "returned" => DeliveredOnceToRegistered)
    /\ [][OnlyToRegistered]_vars

\* C30 (amended): track never propagates an exception; an event is only ever
\* delivered to a subscriber registered at the time it is called, so a
\* subscriber removed through the function returned by subscribe receives no
\* later events; and as long as no callback changes the registrations while
\* the event is dispatched, the event is delivered exactly once to every
\* subscriber registered at the moment of the call, even when other
\* subscribers throw.  (Delivery iterates the live Set.)
C30_Delivery ==
    /\ [](dispatch.pc # "threw")
    /\ [](dispatch.pc = "returned" /\ dispatch.changes = 0
              => DeliveredOnceToRegistered)
    /\ [][OnlyToRegistered]_vars

\* the first subscriber threw and the second still received the event
C30_Witness ==
    /\ dispatch.pc = "returned"
    /\ dispatch.changes = 0
    /\ Len(subscribers) >= 2
    /\ subscribers[1] \in dispatch.threw
    /\ TimesReceived(subscribers[2]) = 1

====
